---- MODULE Spec2Model ----
(***************************************************************************)
(* Model of admin-portal/update_datatable_props.py.                        *)
(*                                                                         *)
(* File content is a sequence of lexemes.  Every lexeme stands for one     *)
(* fixed piece of text (given below as the string itself); the regular     *)
(* expressions and the literal searches of the script are evaluated over   *)
(* these sequences position by position, the way re.finditer, re.sub and   *)
(* str.replace scan a string.  A path is the sequence of its segments, an  *)
(* absolute path starting with the empty segment.                          *)
(***************************************************************************)
EXTENDS Integers, Sequences, FiniteSets, TLC

VARIABLES
    base,              \* Path(__file__).parent of the running script
    fs,                \* the file system: path |-> content, for existing files
    pc,                \* "loop" | "done" | "crashed" (main), "call" (direct calls)
    exc,               \* the exception raised in this run: "none" | "OSError"
    idx,               \* position of main's for-loop in files_to_update
    updated_count,     \* main's counter
    out,               \* the lines printed so far by this run
    writelog,          \* the paths opened with mode 'w' so far by this run
    file_path,         \* argument of the latest update_datatable_props call that returned
    original_content,  \* its local original_content
    content,           \* its local content after the four steps
    ret,               \* its return value: "True" | "False", "none" before any call returned
    prev               \* how the previous run of main ended: "none" | "done"

vars == <<base, fs, pc, exc, idx, updated_count, out, writelog, file_path,
          original_content, content, ret, prev>>

----------------------------------------------------------------------------
(* Bounds *)

\* Number of fragments a file content of RewriterSpec is built from.
MaxFrags == 2

\* Number of direct calls of update_datatable_props in RewriterSpec.
MaxCalls == 2

\* Number of worklist files that exist on disk when main starts.
MaxExisting == 2

----------------------------------------------------------------------------
(* Lexemes *)

SP == " "
NL == "\n"
SEMI == ";"
DataTableTag == "<DataTable"
SpreadProps == "{...defaultDataTableProps}"
PagLiteral == "recordsPerPageOptions={[10, 20, 50, 100]}"
PagSpread == "recordsPerPageOptions={[...defaultPaginationOptions]}"
PagOther == "recordsPerPageOptions={[5, 10, 25]}"
ImportSame == "import { defaultDataTableProps, defaultPaginationOptions } from './shared/DataTableConfig'"
ImportUp == "import { defaultDataTableProps, defaultPaginationOptions } from '../shared/DataTableConfig'"
ImportStmt == "import React from 'react'"
ImportOpen == "import {"
FromClose == "} from '@mantine/core'"
Other == "records={rows}"

\* \s of the re module, over the lexemes.
IsSpace(t) == t \in {SP, NL}

\* The attribute names of pattern and pattern2, in their order.
Attrs == <<"withTableBorder", "withColumnBorders", "striped", "highlightOnHover">>

\* Lexemes holding the text "import " followed by at least one character.
HasImportKeyword(t) == t \in {ImportStmt, ImportOpen, ImportSame, ImportUp}

\* Lexemes holding the text " from " followed by at least one character.
HasFromClause(t) == t \in {ImportStmt, FromClose, ImportSame, ImportUp}

\* Number of spaces of the indentation in replacement and replacement2.
IndentWidth == 12

Indent == [k \in 1..IndentWidth |-> SP]

----------------------------------------------------------------------------
(* Step 1: import injection *)

\* The test of line 17 dropped: the import is taken to be absent.
HasConfigImport_Never(c) == FALSE

\* The test of line 17 with its second operand forgotten.
HasConfigImport_OnlySame(c) == \E k \in 1..Len(c) : c[k] = ImportSame

\* 'from './shared/DataTableConfig'' in content or 'from '../shared/DataTableConfig'' in content
HasConfigImport(c) == \E k \in 1..Len(c) : c[k] \in {ImportSame, ImportUp}

\* str.lower() on the path segments the model uses.
Lower(seg) ==
    CASE seg = "Users" -> "users"
      [] seg = "USERS" -> "users"
      [] seg = "TasksGrid.tsx" -> "tasksgrid.tsx"
      [] seg = "ContactsManager.tsx" -> "contactsmanager.tsx"
      [] seg = "IdentifiersManager.tsx" -> "identifiersmanager.tsx"
      [] seg = "M2MClientsManager.tsx" -> "m2mclientsmanager.tsx"
      [] seg = "EndpointManagement.tsx" -> "endpointmanagement.tsx"
      [] seg = "ReviewTasks.tsx" -> "reviewtasks.tsx"
      [] seg = "KvkReviewQueue.tsx" -> "kvkreviewqueue.tsx"
      [] seg = "AuditLogViewer.tsx" -> "auditlogviewer.tsx"
      [] seg = "UserManagement.tsx" -> "usermanagement.tsx"
      [] OTHER -> seg

\* str(file_path): the segments joined by "/", as a sequence of pieces.
StrPath(p) ==
    [k \in 1..(2 * Len(p) - 1) |-> IF k % 2 = 1 THEN p[(k + 1) \div 2] ELSE "/"]

\* '/users/' in str(file_path).lower()
InUsersDir(p) ==
    LET s == [k \in 1..Len(StrPath(p)) |-> Lower(StrPath(p)[k])]
    IN  \E k \in 1..(Len(s) - 2) : s[k] = "/" /\ s[k + 1] = "users" /\ s[k + 2] = "/"

\* The import statement line that line 30 builds from import_path.
import_line(p) ==
    IF InUsersDir(p) THEN <<ImportUp, SEMI, NL>> ELSE <<ImportSame, SEMI, NL>>

\* Index of the first "\n" at or after position k, 0 when there is none.
RECURSIVE LineEnd(_, _)
LineEnd(c, k) ==
    IF k > Len(c) THEN 0
    ELSE IF c[k] = NL THEN k
    ELSE LineEnd(c, k + 1)

\* re.match of import_pattern at position k: the position after the match, 0 when
\* there is none.  "." stops at "\n", so the match lies in one line, and the
\* greedy ".+;" takes it to the ";" right before the line's "\n".
ImportMatchEnd(c, k) ==
    LET e == LineEnd(c, k)
    IN  IF /\ HasImportKeyword(c[k])
           /\ e > k + 1
           /\ c[e - 1] = SEMI
           /\ \E j \in k..(e - 2) : HasFromClause(c[j])
        THEN e + 1
        ELSE 0

\* list(re.finditer(import_pattern, content)), as the end positions of the
\* matches, scanning from position k.
RECURSIVE ImportMatches(_, _)
ImportMatches(c, k) ==
    IF k > Len(c) THEN <<>>
    ELSE LET e == ImportMatchEnd(c, k)
         IN  IF e # 0 THEN <<e>> \o ImportMatches(c, e)
             ELSE ImportMatches(c, k + 1)

\* imports[-1].end(), as the number of lexemes before the insertion point.
insert_pos(c) ==
    LET imports == ImportMatches(c, 1)
    IN  imports[Len(imports)] - 1

\* Lines 17-30.
InjectImport(p, c) ==
    IF HasConfigImport(c) THEN c
    ELSE IF ImportMatches(c, 1) = <<>> THEN c
    ELSE LET at == insert_pos(c)
         IN  SubSeq(c, 1, at) \o import_line(p) \o SubSeq(c, at + 1, Len(c))

----------------------------------------------------------------------------
(* Steps 2 and 3: the DataTable prop block *)

\* Greedy \s+ at position k: the position after it, 0 when c[k] is no whitespace.
RECURSIVE SkipSpace(_, _)
SkipSpace(c, k) ==
    IF k <= Len(c) /\ IsSpace(c[k]) THEN SkipSpace(c, k + 1) ELSE k

\* The separator of pattern written as " +": a greedy run of spaces only.
RECURSIVE SkipBlanks(_, _)
SkipBlanks(c, k) ==
    IF k <= Len(c) /\ c[k] = SP THEN SkipBlanks(c, k + 1) ELSE k

Sep1_SpacesOnly(c, k) ==
    IF k <= Len(c) /\ c[k] = SP THEN SkipBlanks(c, k) ELSE 0

\* The separator of pattern: \s+
Sep1(c, k) ==
    IF k <= Len(c) /\ IsSpace(c[k]) THEN SkipSpace(c, k) ELSE 0

\* The separator of pattern2: \n\s+
Sep2(c, k) ==
    IF k < Len(c) /\ c[k] = NL /\ IsSpace(c[k + 1]) THEN SkipSpace(c, k) ELSE 0

\* The separator at position k of pattern (multi = FALSE) or pattern2 (multi = TRUE).
Sep(c, k, multi) == IF multi THEN Sep2(c, k) ELSE Sep1(c, k)

\* The attribute names from the a-th on, each followed by its separator, matched
\* at position k: the position after the match, 0 when there is none.
RECURSIVE MatchAttrs(_, _, _, _)
MatchAttrs(c, k, a, multi) ==
    IF a > Len(Attrs) THEN k
    ELSE IF k <= Len(c) /\ c[k] = Attrs[a]
         THEN LET e == Sep(c, k + 1, multi)
              IN  IF e # 0 THEN MatchAttrs(c, e, a + 1, multi) ELSE 0
         ELSE 0

\* re.match of pattern / pattern2 at position k: the position after the match,
\* 0 when there is none.
PropMatchEnd(c, k, multi) ==
    IF c[k] = DataTableTag
    THEN LET e == Sep(c, k + 1, multi)
         IN  IF e # 0 THEN MatchAttrs(c, e, 1, multi) ELSE 0
    ELSE 0

\* replacement without the indentation that follows the spread.
replacement_NoTrailingIndent == <<DataTableTag, NL>> \o Indent \o <<SpreadProps, NL>>

\* Line 35.
replacement == <<DataTableTag, NL>> \o Indent \o <<SpreadProps, NL>> \o Indent

\* Line 40.
replacement2 == <<DataTableTag, NL>> \o Indent \o <<SpreadProps, NL>> \o Indent

\* re.sub(pattern, replacement, content) and re.sub(pattern2, replacement2,
\* content) from position k on: every leftmost non-overlapping match is replaced.
RECURSIVE ReSub(_, _, _)
ReSub(c, k, multi) ==
    IF k > Len(c) THEN <<>>
    ELSE LET e == PropMatchEnd(c, k, multi)
         IN  IF e # 0
             THEN (IF multi THEN replacement2 ELSE replacement) \o ReSub(c, e, multi)
             ELSE <<c[k]>> \o ReSub(c, k + 1, multi)

\* Line 36.
SubPattern(c) == ReSub(c, 1, FALSE)

\* Line 41.
SubPattern2(c) == ReSub(c, 1, TRUE)

----------------------------------------------------------------------------
(* Step 4: the pagination literal *)

\* Line 44: content.replace(literal, spread).
ReplacePagination(c) ==
    [k \in 1..Len(c) |-> IF c[k] = PagLiteral THEN PagSpread ELSE c[k]]

----------------------------------------------------------------------------
(* The four steps in order, lines 16-44 *)

Transform(p, c) == ReplacePagination(SubPattern2(SubPattern(InjectImport(p, c))))

----------------------------------------------------------------------------
(* update_datatable_props *)

\* The comparison of line 46 dropped: the file is always written.
Changed_Always(new, orig) == TRUE

\* Line 46: content != original_content
Changed(new, orig) == new # orig

\* file_path.name
Name(p) == p[Len(p)]

\* update_datatable_props(file_path) on an existing file, with no I/O error:
\* lines 11-53.
update_datatable_props(p) ==
    /\ file_path' = p
    /\ original_content' = fs[p]
    /\ content' = Transform(p, fs[p])
    /\ IF Changed(content', original_content')
       THEN /\ fs' = [fs EXCEPT ![p] = content']
            /\ writelog' = Append(writelog, p)
            /\ out' = Append(out, [kind |-> "updated", arg |-> <<Name(p)>>])
            /\ ret' = "True"
       ELSE /\ out' = Append(out, [kind |-> "nochange", arg |-> <<Name(p)>>])
            /\ ret' = "False"
            /\ UNCHANGED <<fs, writelog>>

----------------------------------------------------------------------------
(* main *)

\* Lines 59-69.
files_to_update ==
    << <<"TasksGrid.tsx">>,
       <<"ContactsManager.tsx">>,
       <<"IdentifiersManager.tsx">>,
       <<"M2MClientsManager.tsx">>,
       <<"EndpointManagement.tsx">>,
       <<"ReviewTasks.tsx">>,
       <<"KvkReviewQueue.tsx">>,
       <<"audit", "AuditLogViewer.tsx">>,
       <<"users", "UserManagement.tsx">> >>

\* Line 56: Path(__file__).parent / 'src' / 'components'
components_dir == base \o <<"src", "components">>

\* Line 73: components_dir / file_name, for the entry the loop is at.
CurrentPath == components_dir \o files_to_update[idx]

\* Lines 72-76: the loop body for an entry that exists.
MainUpdate ==
    /\ pc = "loop"
    /\ idx <= Len(files_to_update)
    /\ CurrentPath \in DOMAIN fs
    /\ update_datatable_props(CurrentPath)
    /\ updated_count' = IF ret' = "True" THEN updated_count + 1 ELSE updated_count
    /\ idx' = idx + 1
    /\ UNCHANGED <<base, pc, exc, prev>>

\* The else branch of line 77 ending the loop (a break after the message).
MainNotFound_Stops ==
    /\ pc = "loop"
    /\ idx <= Len(files_to_update)
    /\ (base \o <<"src", "components">> \o files_to_update[idx]) \notin DOMAIN fs
    /\ out' = Append(out, [kind |-> "notfound",
                           arg |-> base \o <<"src", "components">> \o files_to_update[idx]])
    /\ idx' = Len(files_to_update) + 1
    /\ UNCHANGED <<base, fs, pc, exc, updated_count, writelog, file_path,
                   original_content, content, ret, prev>>

\* Lines 72-74, 77-78: the loop body for an entry that does not exist.
MainNotFound ==
    /\ pc = "loop"
    /\ idx <= Len(files_to_update)
    /\ CurrentPath \notin DOMAIN fs
    /\ out' = Append(out, [kind |-> "notfound", arg |-> CurrentPath])
    /\ idx' = idx + 1
    /\ UNCHANGED <<base, fs, pc, exc, updated_count, writelog, file_path,
                   original_content, content, ret, prev>>

\* Lines 11-12 raising OSError inside a try block that main puts around the call:
\* the error is caught and the loop goes on with the next entry.
ReadFails_Caught ==
    /\ pc = "loop"
    /\ idx <= Len(files_to_update)
    /\ (base \o <<"src", "components">> \o files_to_update[idx]) \in DOMAIN fs
    /\ exc' = "OSError"
    /\ idx' = idx + 1
    /\ UNCHANGED <<base, fs, pc, updated_count, out, writelog, file_path,
                   original_content, content, ret, prev>>

\* Lines 11-12 raising OSError (or UnicodeDecodeError): nothing catches it, in
\* update_datatable_props or in main, and the interpreter exits.
ReadFails ==
    /\ pc = "loop"
    /\ idx <= Len(files_to_update)
    /\ CurrentPath \in DOMAIN fs
    /\ exc' = "OSError"
    /\ pc' = "crashed"
    /\ UNCHANGED <<base, fs, idx, updated_count, out, writelog, file_path,
                   original_content, content, ret, prev>>

\* Lines 47-48 raising OSError: open() fails and the file is as it was, or the
\* file was truncated by open() and the write fails.
WriteFails ==
    /\ pc = "loop"
    /\ idx <= Len(files_to_update)
    /\ CurrentPath \in DOMAIN fs
    /\ Changed(Transform(CurrentPath, fs[CurrentPath]), fs[CurrentPath])
    /\ exc' = "OSError"
    /\ pc' = "crashed"
    /\ writelog' = Append(writelog, CurrentPath)
    /\ \/ fs' = fs
       \/ fs' = [fs EXCEPT ![CurrentPath] = <<>>]
    /\ UNCHANGED <<base, idx, updated_count, out, file_path,
                   original_content, content, ret, prev>>

\* Line 80.
MainSummary ==
    /\ pc = "loop"
    /\ idx > Len(files_to_update)
    /\ out' = Append(out, [kind |-> "summary", arg |-> <<updated_count>>])
    /\ pc' = "done"
    /\ UNCHANGED <<base, fs, exc, idx, updated_count, writelog, file_path,
                   original_content, content, ret, prev>>

\* Lines 82-83 and 71: after a run that completed, the script is run again on the
\* files that run left.
MainStart ==
    /\ pc = "done"
    /\ prev' = pc
    /\ pc' = "loop"
    /\ exc' = "none"
    /\ idx' = 1
    /\ updated_count' = 0
    /\ out' = <<>>
    /\ writelog' = <<>>
    /\ file_path' = <<>>
    /\ original_content' = <<>>
    /\ content' = <<>>
    /\ ret' = "none"
    /\ UNCHANGED <<base, fs>>

----------------------------------------------------------------------------
(* The files the runs start from *)

BlockSingle ==
    <<DataTableTag, SP, Attrs[1], SP, Attrs[2], SP, Attrs[3], SP, Attrs[4], SP>>

BlockMulti ==
    <<DataTableTag, NL, SP, Attrs[1], NL, SP, Attrs[2], NL, SP, Attrs[3], NL, SP,
      Attrs[4], NL, SP>>

BlockMixed ==
    <<DataTableTag, NL, SP, Attrs[1], SP, Attrs[2], SP, Attrs[3], SP, Attrs[4], NL, SP>>

BlockNoIndent ==
    <<DataTableTag, NL, Attrs[1], NL, Attrs[2], NL, Attrs[3], NL, Attrs[4], NL>>

BlockAttrs ==
    <<Attrs[1], SP, Attrs[2], SP, Attrs[3], SP, Attrs[4]>>

ImportMultiLine ==
    <<ImportOpen, NL, SP, Other, NL, FromClose, SEMI, NL>>

\* The pieces a source file is put together from.
Frags ==
    { <<ImportStmt, SEMI, NL>>, <<ImportStmt, NL>>, ImportMultiLine,
      <<ImportSame, SEMI, NL>>, <<ImportUp, SEMI, NL>>,
      BlockSingle, BlockMulti, BlockMixed, BlockNoIndent, BlockAttrs, replacement,
      <<DataTableTag, SP>>, <<PagLiteral>>, <<PagOther>>,
      <<Other>>, <<SP>>, <<NL>>, <<SEMI, NL>> }

RECURSIVE Flatten(_)
Flatten(ss) == IF ss = <<>> THEN <<>> ELSE Head(ss) \o Flatten(Tail(ss))

\* Every content of at most MaxFrags pieces.
Contents == UNION { { Flatten(ss) : ss \in [1..n -> Frags] } : n \in 0..MaxFrags }

\* The paths update_datatable_props is called with directly.
FnPaths ==
    { <<"", "repo", "src", "components", "TasksGrid.tsx">>,
      <<"", "repo", "src", "components", "users", "UserManagement.tsx">>,
      <<"", "repo", "src", "components", "Users", "UserManagement.tsx">>,
      <<"", "repo", "src", "components", "superusers", "List.tsx">>,
      <<"src", "components", "users", "UserManagement.tsx">>,
      <<"users", "UserManagement.tsx">> }

\* The directories the script is started from.
Bases ==
    { <<"", "home", "dev", "admin-portal">>,
      <<"", "Users", "dev", "admin-portal">> }

\* The contents of the worklist files when main starts.
MainContents ==
    { <<ImportStmt, SEMI, NL>> \o BlockSingle \o <<Other, SP, PagLiteral>>,
      <<ImportStmt, SEMI, NL, Other, NL>>,
      <<ImportSame, SEMI, NL>> \o replacement \o <<Other, SP, PagSpread>> }

---------------------------------------------------------------------------------------------------------------------------------------------------
(* Spec: the script is run (main, any number of times), or its function is   *)
(* called directly on one file                                              *)

\* Lines 82-83: the script is run.
InitMain ==
    /\ base \in Bases
    /\ fs \in UNION { [S -> MainContents] :
                        S \in { T \in SUBSET { base \o <<"src", "components">> \o files_to_update[k] :
                                                 k \in 1..Len(files_to_update) } :
                                  Cardinality(T) <= MaxExisting } }
    /\ pc = "loop"

\* Line 9: the module is imported and update_datatable_props is called.
InitCall ==
    /\ base = <<>>
    /\ fs \in UNION { [{p} -> Contents] : p \in FnPaths }
    /\ pc = "call"

Init ==
    /\ InitMain \/ InitCall
    /\ exc = "none"
    /\ idx = 1
    /\ updated_count = 0
    /\ out = <<>>
    /\ writelog = <<>>
    /\ file_path = <<>>
    /\ original_content = <<>>
    /\ content = <<>>
    /\ ret = "none"
    /\ prev = "none"

\* Lines 9-53, called directly.
CallUpdate ==
    /\ pc = "call"
    /\ Len(out) < MaxCalls
    /\ \E p \in DOMAIN fs : update_datatable_props(p)
    /\ UNCHANGED <<base, pc, exc, idx, updated_count, prev>>

Next ==
    \/ MainUpdate
    \/ MainNotFound
    \/ ReadFails
    \/ WriteFails
    \/ MainSummary
    \/ MainStart
    \/ CallUpdate

Spec == Init /\ [][Next]_vars

----------------------------------------------------------------------------
(* Vocabulary of the properties *)

\* This step is a call of update_datatable_props that returned.
CallReturned ==
    /\ Len(out') = Len(out) + 1
    /\ out'[Len(out')].kind \in {"updated", "nochange"}

\* c holds a match of pattern or of pattern2.
HasPropBlock(c) ==
    \E k \in 1..Len(c) : PropMatchEnd(c, k, FALSE) # 0 \/ PropMatchEnd(c, k, TRUE) # 0

\* c holds the literal recordsPerPageOptions={[10, 20, 50, 100]}.
HasPagLiteral(c) == \E k \in 1..Len(c) : c[k] = PagLiteral

\* c references the shared configuration module, by either relative path.
ReferencesShared(c) == \E k \in 1..Len(c) : c[k] = ImportSame \/ c[k] = ImportUp

\* The latest call that returned inserted the import of the shared module.
Injected ==
    /\ ret # "none"
    /\ ~ReferencesShared(original_content)
    /\ ReferencesShared(content)

\* The position in content of the import the latest call inserted.
InjectedAt == CHOOSE k \in 1..Len(content) : content[k] \in {ImportSame, ImportUp}

\* Lexemes that are part of an import statement of a TypeScript source.
IsImportPart(t) == HasImportKeyword(t) \/ HasFromClause(t)

\* The lines of out that report a rewritten file, among the first n.
UpdatedLines(n) == { k \in 1..n : out[k].kind = "updated" }

----------------------------------------------------------------------------
(* C1 *)

\* C1: the rewriter is idempotent.  The four steps applied to the output of a
\* call give that output again; a call that follows another call on the same
\* file writes nothing and returns False; and a run of main that follows a
\* completed run reports 0 updated files and writes nothing.
C1_Idempotent ==
    /\ ret # "none" =>
          /\ Transform(file_path, content) = content
          /\ Len(out) >= 2 /\ pc = "call" =>
                /\ ret = "False"
                /\ out[Len(out)].kind = "nochange"
                /\ content = original_content
                /\ fs[file_path] = original_content
                /\ Len(writelog) <= 1
    /\ pc = "done" /\ prev = "done" =>
          /\ updated_count = 0
          /\ writelog = <<>>
          /\ out[Len(out)].kind = "summary"
          /\ out[Len(out)].arg = <<0>>

\* A second call on a file the first call rewrote (import, block and literal).
C1_Witness ==
    /\ pc = "call"
    /\ Len(out) = 2
    /\ out[1].kind = "updated"
    /\ ReferencesShared(fs[file_path])
    /\ \E k \in 1..Len(content) : content[k] = SpreadProps

----------------------------------------------------------------------------
(* C2 *)

\* C2, as the claim states it: a call on a file with neither a prop block (in
\* either layout) nor the pagination literal, whatever its import statements,
\* leaves the file as it is, reports "No changes needed", returns False and adds
\* nothing to the updated count.
C2_Original ==
    [][ (CallReturned /\ ~HasPropBlock(original_content')
                      /\ ~HasPagLiteral(original_content'))
        => /\ fs' = fs
           /\ writelog' = writelog
           /\ ret' = "False"
           /\ out'[Len(out')].kind = "nochange"
           /\ updated_count' = updated_count ]_vars

\* C2, amended: the same, for a file that moreover already references the shared
\* configuration module or holds no line that import_pattern matches.
C2_NoOpFile ==
    [][ (CallReturned /\ ~HasPropBlock(original_content')
                      /\ ~HasPagLiteral(original_content')
                      /\ (ReferencesShared(original_content')
                            \/ ImportMatches(original_content', 1) = <<>>))
        => /\ fs' = fs
           /\ writelog' = writelog
           /\ ret' = "False"
           /\ out'[Len(out')].kind = "nochange"
           /\ updated_count' = updated_count ]_vars

\* A file with import statements, the shared one among them, and no target was
\* left as it is.
C2_Witness ==
    /\ ret = "False"
    /\ ~HasPropBlock(original_content)
    /\ ~HasPagLiteral(original_content)
    /\ ReferencesShared(original_content)
    /\ Len(ImportMatches(original_content, 1)) >= 2
    /\ fs[file_path] = original_content

----------------------------------------------------------------------------
(* C3 *)

\* C3: a call writes the file if and only if the content after the four steps
\* differs from the content read; it returns True exactly when it wrote; and
\* when it returns False the stored content is what it was and no write was
\* issued.
C3_ConditionalPersistence ==
    [][ CallReturned =>
          /\ original_content' = fs[file_path']
          /\ (writelog' # writelog) <=> (content' # original_content')
          /\ (ret' = "True") <=> (writelog' # writelog)
          /\ ret' = "True" =>
                /\ writelog' = Append(writelog, file_path')
                /\ fs' = [fs EXCEPT ![file_path'] = content']
          /\ ret' # "True" =>
                /\ ret' = "False"
                /\ fs' = fs ]_vars

\* One call wrote the file and the next call on it did not.
C3_Witness ==
    /\ Len(out) = 2
    /\ out[1].kind = "updated"
    /\ out[2].kind = "nochange"
    /\ ret = "False"
    /\ Len(writelog) = 1

----------------------------------------------------------------------------
(* C4 *)

\* C4: when a call inserts the import, the inserted line starts a line of its
\* own right after the line that ends the last import statement of the file, and
\* no import statement of the original content follows it.
C4_AfterLastImport ==
    Injected =>
        /\ InjectedAt > 1
        /\ content[InjectedAt - 1] = NL
        /\ \E k \in 1..(InjectedAt - 1) :
              /\ IsImportPart(content[k])
              /\ LineEnd(content, k) = InjectedAt - 1
        /\ \A k \in (InjectedAt + 1)..Len(content) : ~IsImportPart(content[k])

----------------------------------------------------------------------------
(* C5 *)

\* The path has a directory segment named "users", in any letter case.
HasUsersSegment(p) ==
    \E k \in 1..(Len(p) - 1) : p[k] \in {"users", "Users", "USERS"}

\* C5: when a call inserts the import, it inserts the one-level-up path if the
\* path of the file has a directory segment named "users" in any letter case,
\* at any position, and the same-level path for every other path.
C5_PathHeuristic ==
    Injected =>
        content[InjectedAt] = IF HasUsersSegment(file_path) THEN ImportUp ELSE ImportSame

----------------------------------------------------------------------------
(* C9 *)

\* The worklist entry main was at when it made the latest call that returned.
LatestEntry ==
    CHOOSE e \in { files_to_update[k] : k \in 1..Len(files_to_update) } :
        file_path = components_dir \o e

\* C9: in a run of main the inserted import path depends on the worklist entry
\* alone, whatever directory the script is in: one level up for the entries
\* under users/, the same level for all others.
C9_BaseIndependent ==
    (Injected /\ pc # "call") =>
        content[InjectedAt] = IF LatestEntry[1] = "users" THEN ImportUp ELSE ImportSame

----------------------------------------------------------------------------
(* C6 *)

\* The path main resolves the k-th worklist entry to.
EntryPath(k) == base \o <<"src", "components">> \o files_to_update[k]

\* The paths of the existing entries among the first n that out reports as
\* rewritten, in worklist order.
RECURSIVE RewrittenPaths(_)
RewrittenPaths(n) ==
    IF n = 0 THEN <<>>
    ELSE IF out[n].kind = "updated" THEN Append(RewrittenPaths(n - 1), EntryPath(n))
    ELSE RewrittenPaths(n - 1)

\* C6: in a run of main that no I/O error ends, every entry the loop has passed
\* has its one line of output, in worklist order: "File not found" with the
\* resolved path for an entry that does not exist, and such an entry is never
\* written; the loop goes on to the end of the worklist whatever entries are
\* missing; and the count, which the summary reports, is the number of existing
\* files that were rewritten.
C6_MissingFiles ==
    pc \in {"loop", "done"} =>
        /\ Len(out) = (idx - 1) + (IF pc = "done" THEN 1 ELSE 0)
        /\ \A k \in 1..(idx - 1) :
              IF EntryPath(k) \in DOMAIN fs
              THEN /\ out[k].kind \in {"updated", "nochange"}
                   /\ out[k].arg = <<Name(EntryPath(k))>>
              ELSE /\ out[k].kind = "notfound"
                   /\ out[k].arg = EntryPath(k)
        /\ writelog = RewrittenPaths(idx - 1)
        /\ updated_count = Cardinality(UpdatedLines(idx - 1))
        /\ updated_count = Len(writelog)
        /\ pc = "done" =>
              /\ idx = Len(files_to_update) + 1
              /\ out[idx].kind = "summary"
              /\ out[idx].arg = <<updated_count>>

\* A completed run in which a missing entry came before a rewritten one.
C6_Witness ==
    /\ pc = "done"
    /\ updated_count >= 1
    /\ \E j, k \in 1..Len(files_to_update) :
          /\ j < k
          /\ out[j].kind = "notfound"
          /\ out[k].kind = "updated"

----------------------------------------------------------------------------
(* C7 *)

\* The text the claim gives for the rewritten block: the opening tag, a newline,
\* 12 spaces, the spread, a newline and 12 spaces.
RewrittenBlock ==
    <<DataTableTag, NL, SP, SP, SP, SP, SP, SP, SP, SP, SP, SP, SP, SP,
      SpreadProps, NL, SP, SP, SP, SP, SP, SP, SP, SP, SP, SP, SP, SP>>

\* The block b stands at position k of c and a further prop follows it.
BlockAt(c, k, b) ==
    /\ k + Len(b) <= Len(c)
    /\ SubSeq(c, k, k + Len(b) - 1) = b
    /\ ~IsSpace(c[k + Len(b)])

\* c with the n lexemes from position k on replaced by b.
Splice(c, k, n, b) == SubSeq(c, 1, k - 1) \o b \o SubSeq(c, k + n, Len(c))

\* Steps 2 and 3 in order.
PropRewrite(c) == SubPattern2(SubPattern(c))

\* C7: wherever the content a call gives to step 2 holds the four attributes
\* after the opening tag, separated by single spaces on one line or each on its
\* own indented line, and then a further prop, steps 2 and 3 put the rewritten
\* block in the place of that span and treat the text before and after it as
\* they would on its own, which is what the call then hands to step 4; and steps
\* 2 and 3 give the same for the other layout of that block.
C7_LayoutIndependent ==
    ret # "none" =>
        LET c == InjectImport(file_path, original_content)
        IN  \A k \in 1..Len(c) :
                \A b \in {BlockSingle, BlockMulti} :
                    BlockAt(c, k, b) =>
                        LET expected == PropRewrite(SubSeq(c, 1, k - 1))
                                            \o RewrittenBlock
                                            \o PropRewrite(SubSeq(c, k + Len(b), Len(c)))
                        IN  /\ PropRewrite(c) = expected
                            /\ content = ReplacePagination(expected)
                            /\ \A b2 \in {BlockSingle, BlockMulti} :
                                  PropRewrite(Splice(c, k, Len(b), b2)) = expected

\* A call rewrote a block whose attributes stood each on its own line.
C7_Witness ==
    /\ ret = "True"
    /\ \E k \in 1..Len(original_content) : BlockAt(original_content, k, BlockMulti)
    /\ \E k \in 1..Len(content) :
          SubSeq(content, k, k + Len(RewrittenBlock) - 1) = RewrittenBlock

----------------------------------------------------------------------------
(* C8 *)

\* C8: an I/O error in reading or writing a worklist file is not caught.  The
\* step that raises it ends the run: it prints nothing, leaves the count and
\* every other file as they were, and from then on nothing is checked, read,
\* written or printed, so the summary line never appears.
C8_FailureHalts ==
    [][ /\ exc' # "none" => pc' = "crashed"
        /\ (pc = "loop" /\ pc' = "crashed") =>
              /\ out' = out
              /\ updated_count' = updated_count
              /\ idx' = idx
              /\ \A p \in DOMAIN fs : p # CurrentPath => fs'[p] = fs[p]
              /\ \A k \in 1..Len(out') : out'[k].kind # "summary"
        /\ pc = "crashed" => pc' = "crashed" ]_vars

\* An I/O error ended the run after a file had been rewritten.
C8_Witness ==
    /\ pc = "crashed"
    /\ exc = "OSError"
    /\ updated_count >= 1
    /\ idx <= Len(files_to_update)

----------------------------------------------------------------------------
(* C10 *)

\* C10: on the content step 2 is given by a call, every span pattern2 matches is
\* matched by pattern, the output of step 2 holds no match of either pattern,
\* and step 3 leaves the output of step 2 as it is.
C10_MultiLineRuleIdle ==
    ret # "none" =>
        LET c == InjectImport(file_path, original_content)
            d == SubPattern(c)
        IN  /\ \A k \in 1..Len(c) :
                  PropMatchEnd(c, k, TRUE) # 0 =>
                      PropMatchEnd(c, k, FALSE) = PropMatchEnd(c, k, TRUE)
            /\ ~HasPropBlock(d)
            /\ SubPattern2(d) = d

\* A call was given a block that pattern2 matches.
C10_Witness ==
    /\ ret = "True"
    /\ \E k \in 1..Len(original_content) : PropMatchEnd(original_content, k, TRUE) # 0

====
